---- MODULE Spec2Model ----
(***************************************************************************)
(* Friend-relationship state model of the Fitnest web application.         *)
(*                                                                         *)
(* The state is the Friend table (one row per friend request) and the      *)
(* outcome of the last HTTP request served.  The route handlers            *)
(* add_friend_userid_provided, remove_friend_userid_provided and           *)
(* show_friends of myapp/routes.py are the actions.  The two copies of     *)
(* routes.py ("Fitnest Health Applic" and "Fitnest Health app") have the   *)
(* same friend handlers up to the flash category and button styling.       *)
(*                                                                         *)
(* myapp/models.py and myapp/models_methods.py are not part of the         *)
(* sources at hand: get_friend_status, get_all_friends and the identity    *)
(* of a Friend row are modelled from the specification (sections 3, 4.1).  *)
(***************************************************************************)
EXTENDS Integers, FiniteSets, Sequences, TLC

\* Number of rows of the User table (signed-up users).
NumUsers == 3

\* Number of Friend rows that can be inserted in one behaviour (caps the
\* row id counter so the state space is finite).
MaxId == 2

\* Number of add-friend handlers that can be between their status lookup
\* and their commit at the same time.
MaxInflight == 2

\* Ids of the existing users.
Users == 1..NumUsers

\* Values of the <int:user_id> URL parameter: the existing users and one id
\* that names no user.
UserIds == 1..(NumUsers + 1)

\* FriendStatusEnum members written by the handlers.
PENDING == "PENDING"
FRIEND == "FRIEND"

\* Python None in the record position of get_friend_status's result.
NoRecord == [id |-> 0, user1 |-> 0, user2 |-> 0, status |-> "NONE"]

\* The four classifications of the specification, section 3.
Statuses == {"friend", "pending-sent-request", "pending-to-approve", "neutral"}

VARIABLES
    friends,    \* the Friend table: a set of rows [id, user1, user2, status]
    nextId,     \* the next primary key the table hands out
    last,       \* the request served last: route, acting user, target, looked-up
                \* status, outcome and flashed message
    inflight    \* add-friend handlers that have looked the status up and have
                \* not committed yet (empty while requests are served one at
                \* a time)

vars == <<friends, nextId, last, inflight>>

\* Rows of the Friend table naming both users, in either direction.
pair_records(F, a, b) ==
    {r \in F : \/ (r.user1 = a /\ r.user2 = b)
               \/ (r.user1 = b /\ r.user2 = a)}

\* resolve_status of the specification: (status, record or None).
get_friend_status(F, a, b) ==
    LET rs == pair_records(F, a, b)
    IN  IF rs = {} THEN <<"neutral", NoRecord>>
        ELSE LET r == CHOOSE x \in rs : \A y \in rs : x.id <= y.id
             IN  IF r.status = FRIEND THEN <<"friend", r>>
                 ELSE IF r.status = PENDING
                      THEN IF r.user1 = a
                           THEN <<"pending-sent-request", r>>
                           ELSE <<"pending-to-approve", r>>
                      ELSE <<"unknown", r>>

\* list_relationships of the specification: one (status, other user) entry
\* per row the user takes part in.
get_all_friends(F, u) ==
    {<<get_friend_status(F, u, IF r.user1 = u THEN r.user2 ELSE r.user1)[1],
       IF r.user1 = u THEN r.user2 ELSE r.user1>> :
        r \in {x \in F : x.user1 = u \/ x.user2 = u}}

\* Approval that records the friendship as a second row from the approver's
\* side and leaves the request row as it is.
approve_record_new_row(F, rec) ==
    F \cup {[id |-> rec.id + MaxId, user1 |-> rec.user2, user2 |-> rec.user1,
             status |-> FRIEND]}

\* Approval that also makes the approver the requester of the row.
approve_record_swapped(F, rec) ==
    (F \ {rec}) \cup {[rec EXCEPT !.status = FRIEND, !.user1 = rec.user2,
                                  !.user2 = rec.user1]}

\* Approval that writes a status outside FriendStatusEnum.
approve_record_bad_status(F, rec) ==
    (F \ {rec}) \cup {[rec EXCEPT !.status = "APPROVED"]}

\* friend_record.status = FriendStatusEnum.FRIEND; db.session.add; commit.
approve_record(F, rec) ==
    (F \ {rec}) \cup {[rec EXCEPT !.status = FRIEND]}

\* Request row with requester and recipient exchanged.
send_request_swapped(F, nid, cur, uid) ==
    F \cup {[id |-> nid, user1 |-> uid, user2 |-> cur, status |-> PENDING]}

\* Request row that is inserted as an established friendship.
send_request_as_friend(F, nid, cur, uid) ==
    F \cup {[id |-> nid, user1 |-> cur, user2 |-> uid, status |-> FRIEND]}

\* Friend(user1_id=current user, user2_id=user.id, status=PENDING); add; commit.
send_request(F, nid, cur, uid) ==
    F \cup {[id |-> nid, user1 |-> cur, user2 |-> uid, status |-> PENDING]}

\* Removal that deletes every row of the row's requester.
delete_rows_of_requester(F, rec) ==
    {r \in F : r.user1 # rec.user1}

\* Removal whose delete is never committed.
delete_nothing(F, rec) ==
    F

\* db.session.delete(friend_record); commit.
delete_record(F, rec) ==
    F \ {rec}

\* The response of a request, with what the handler looked up and flashed.
Request(op, cur, uid, status, outcome, flash) ==
    [op |-> op, cur |-> cur, uid |-> uid, status |-> status,
     outcome |-> outcome, flash |-> flash]

Init ==
    /\ friends = {}
    /\ nextId = 1
    /\ last = Request("none", 0, 0, "none", "none", "none")
    /\ inflight = {}

\* The status branches of add_friend_userid_provided.
add_friend_dispatch(cur, uid, status, friend_record) ==
    CASE status = "friend" ->
            \* Already a friend, do nothing
            /\ last' = Request("add", cur, uid, status, "redirect", "none")
            /\ UNCHANGED <<friends, nextId>>
      [] status = "pending-sent-request" ->
            \* Current user sent a request, do nothing
            /\ last' = Request("add", cur, uid, status, "redirect", "already-sent")
            /\ UNCHANGED <<friends, nextId>>
      [] status = "pending-to-approve" ->
            \* Other user sent the request, approve
            /\ friends' = approve_record(friends, friend_record)
            /\ last' = Request("add", cur, uid, status, "redirect", "approved")
            /\ UNCHANGED nextId
      [] status = "neutral" ->
            \* No friendship record found, send friend request
            IF uid \in Users
            THEN /\ nextId <= MaxId
                 /\ friends' = send_request(friends, nextId, cur, uid)
                 /\ nextId' = nextId + 1
                 /\ last' = Request("add", cur, uid, status, "redirect", "sent")
            ELSE \* User.query.filter_by(id=user_id).one() raises NoResultFound
                 /\ last' = Request("add", cur, uid, status, "exception", "none")
                 /\ UNCHANGED <<friends, nextId>>
      [] OTHER ->
            /\ last' = Request("add", cur, uid, status, "abort404", "none")
            /\ UNCHANGED <<friends, nextId>>

\* add-friend that looks the status up from the other user's side.
add_friend_swapped_lookup(cur, uid) ==
    /\ UNCHANGED inflight
    /\ IF cur = uid
       THEN /\ last' = Request("add", cur, uid, "none", "abort404", "none")
            /\ UNCHANGED <<friends, nextId>>
       ELSE LET res == get_friend_status(friends, uid, cur)
            IN  add_friend_dispatch(cur, uid, res[1], res[2])

\* add-friend that only sees the rows the acting user has requested itself.
add_friend_directed_lookup(cur, uid) ==
    /\ UNCHANGED inflight
    /\ IF cur = uid
       THEN /\ last' = Request("add", cur, uid, "none", "abort404", "none")
            /\ UNCHANGED <<friends, nextId>>
       ELSE LET res == get_friend_status({r \in friends : r.user1 = cur}, cur, uid)
            IN  add_friend_dispatch(cur, uid, res[1], res[2])

\* add-friend without the test for the acting user itself.
add_friend_no_self_check(cur, uid) ==
    /\ UNCHANGED inflight
    /\ LET res == get_friend_status(friends, cur, uid)
       IN  add_friend_dispatch(cur, uid, res[1], res[2])

\* GET/POST /add-friend/<uid> by the logged-in user cur.
add_friend_userid_provided(cur, uid) ==
    /\ UNCHANGED inflight
    /\ IF cur = uid
       THEN \* Abort if adding self as friend
            /\ last' = Request("add", cur, uid, "none", "abort404", "none")
            /\ UNCHANGED <<friends, nextId>>
       ELSE LET res == get_friend_status(friends, cur, uid)
            IN  add_friend_dispatch(cur, uid, res[1], res[2])

\* Flash message that takes an unknown status for neutral.
remove_flash_default(status) ==
    CASE status = "friend" -> "removed"
      [] status = "pending-sent-request" -> "unsent"
      [] status = "pending-to-approve" -> "rejected"
      [] OTHER -> "none"

\* Flash message of remove-friend, or "abort" for an unknown status.
remove_flash(status) ==
    CASE status = "friend" -> "removed"
      [] status = "pending-sent-request" -> "unsent"
      [] status = "pending-to-approve" -> "rejected"
      [] status = "neutral" -> "none"
      [] OTHER -> "abort"

\* The body of remove_friend_userid_provided after the status lookup.
remove_friend_dispatch(cur, uid, status, friend_record) ==
    IF friend_record # NoRecord
    THEN IF remove_flash(status) = "abort"
         THEN /\ last' = Request("remove", cur, uid, status, "abort404", "none")
              /\ UNCHANGED <<friends, nextId>>
         ELSE /\ friends' = delete_record(friends, friend_record)
              /\ last' = Request("remove", cur, uid, status, "redirect",
                                 remove_flash(status))
              /\ UNCHANGED nextId
    ELSE /\ last' = Request("remove", cur, uid, status, "redirect", "none")
         /\ UNCHANGED <<friends, nextId>>

\* remove-friend that answers 404 when there is no row to delete.
remove_friend_strict(cur, uid) ==
    /\ UNCHANGED inflight
    /\ IF cur = uid
       THEN /\ last' = Request("remove", cur, uid, "none", "abort404", "none")
            /\ UNCHANGED <<friends, nextId>>
       ELSE LET res == get_friend_status(friends, cur, uid)
            IN  IF res[2] = NoRecord
                THEN /\ last' = Request("remove", cur, uid, res[1], "abort404", "none")
                     /\ UNCHANGED <<friends, nextId>>
                ELSE remove_friend_dispatch(cur, uid, res[1], res[2])

\* GET/POST /remove-friend/<uid> by the logged-in user cur.
remove_friend_userid_provided(cur, uid) ==
    /\ UNCHANGED inflight
    /\ IF cur = uid
       THEN \* Abort if removing self as friend
            /\ last' = Request("remove", cur, uid, "none", "abort404", "none")
            /\ UNCHANGED <<friends, nextId>>
       ELSE LET res == get_friend_status(friends, cur, uid)
            IN  remove_friend_dispatch(cur, uid, res[1], res[2])

\* Buttons of one entry of the "my friends" list, or "abort".
friend_buttons(status) ==
    CASE status = "friend" -> "Friend"
      [] status = "pending-sent-request" -> "Sent"
      [] status = "pending-to-approve" -> "Pending"
      [] OTHER -> "abort"

\* Buttons of one user found by the search form, or "abort".
search_buttons(status) ==
    CASE status = "friend" -> "Remove Friend"
      [] status = "pending-sent-request" -> "Unsend"
      [] status = "pending-to-approve" -> "Approve/Reject"
      [] status = "neutral" -> "Add Friend"
      [] OTHER -> "abort"

\* GET/POST /my-friends by the logged-in user cur; found is the result of
\* the user search (empty when the search form was not submitted).
show_friends(cur, found) ==
    LET listed == {friend_buttons(e[1]) : e \in get_all_friends(friends, cur)}
        searched == {search_buttons(get_friend_status(friends, cur, u)[1]) : u \in found}
    IN  /\ last' = Request("show", cur, 0, "none",
                           IF "abort" \in listed \cup searched
                           THEN "abort404" ELSE "render", "none")
        /\ UNCHANGED <<friends, nextId, inflight>>

\* Requests between signed-up users (a user may also name itself).
Next ==
    \/ \E cur \in Users, uid \in Users : add_friend_userid_provided(cur, uid)
    \/ \E cur \in Users, uid \in Users : remove_friend_userid_provided(cur, uid)

Spec == Init /\ [][Next]_vars

\* All requests: targets that name no user and the friends page included.
FullNext ==
    \/ \E cur \in Users, uid \in UserIds : add_friend_userid_provided(cur, uid)
    \/ \E cur \in Users, uid \in UserIds : remove_friend_userid_provided(cur, uid)
    \/ \E cur \in Users : \E found \in SUBSET (Users \ {cur}) : show_friends(cur, found)

FullSpec == Init /\ [][FullNext]_vars

\* First part of add-friend when requests overlap: the self test and the
\* status lookup; the handler then holds what it has read.
add_friend_lookup(cur, uid) ==
    IF cur = uid
    THEN /\ last' = Request("add", cur, uid, "none", "abort404", "none")
         /\ UNCHANGED <<friends, nextId, inflight>>
    ELSE /\ Cardinality(inflight) < MaxInflight
         /\ LET res == get_friend_status(friends, cur, uid)
                slot == CHOOSE k \in 1..MaxInflight : \A h \in inflight : h.slot # k
            IN  inflight' = inflight \cup
                    {[slot |-> slot, cur |-> cur, uid |-> uid,
                      status |-> res[1], friend_record |-> res[2]]}
         /\ UNCHANGED <<friends, nextId, last>>

\* Second part of add-friend: the status branches, run on what the handler
\* read at its lookup, with their commit.
add_friend_finish(h) ==
    /\ h \in inflight
    /\ inflight' = inflight \ {h}
    /\ add_friend_dispatch(h.cur, h.uid, h.status, h.friend_record)

\* add-friend requests served by overlapping handlers.
ConcurrentNext ==
    \/ \E cur \in Users, uid \in Users : add_friend_lookup(cur, uid)
    \/ \E h \in inflight : add_friend_finish(h)

ConcurrentSpec == Init /\ [][ConcurrentNext]_vars

\* A status value of an extended store that FriendStatusEnum as used by
\* the handlers does not know.
ExtendedStatus == "BLOCKED"

\* A store that already holds a row with a status the handlers do not know.
InitExtended ==
    /\ friends = {[id |-> 1, user1 |-> 1, user2 |-> 2, status |-> ExtendedStatus]}
    /\ nextId = 2
    /\ last = Request("none", 0, 0, "none", "none", "none")
    /\ inflight = {}

\* The friend routes served one at a time, the friends page included.
ExtendedNext ==
    \/ \E cur \in Users, uid \in Users : add_friend_userid_provided(cur, uid)
    \/ \E cur \in Users, uid \in Users : remove_friend_userid_provided(cur, uid)
    \/ \E cur \in Users : \E found \in SUBSET (Users \ {cur}) : show_friends(cur, found)

ExtendedSpec == InitExtended /\ [][ExtendedNext]_vars

TypeOK ==
    /\ nextId \in 1..(MaxId + 1)
    /\ \A r \in friends : /\ r.id \in 1..MaxId
                          /\ r.user1 \in Users
                          /\ r.user2 \in Users
                          /\ r.status \in {PENDING, FRIEND}

(***************************************************************************)
(* Properties                                                              *)
(***************************************************************************)

\* The status and the record that get_friend_status returns.
St(F, a, b) == get_friend_status(F, a, b)[1]
Rec(F, a, b) == get_friend_status(F, a, b)[2]

\* The step just taken is the given route by user a toward user b.
Served(op, a, b) ==
    /\ last'.op = op
    /\ last'.cur = a
    /\ last'.uid = b

\* C1: in every reachable state at most one Friend row exists for any
\* unordered pair of users; rows (a,b) and (b,a) count as the same pair.
C1_OneRecordPerPair ==
    \A r1 \in friends, r2 \in friends :
        {r1.user1, r1.user2} = {r2.user1, r2.user2} => r1 = r2

\* Two pairs have a row, one of them approved, after requests in both
\* directions of the lifecycle.
C1_Witness ==
    /\ Cardinality(friends) = 2
    /\ \E r \in friends : r.status = FRIEND
    /\ \E r \in friends : r.status = PENDING
    /\ last.op = "add"

\* C2: when a issues add-friend toward an existing user b (a # b) while the
\* pair is neutral, exactly one row is created, with requester a, recipient
\* b and status PENDING; afterwards the status is pending-sent-request for
\* a and pending-to-approve for b, both with that same row.
C2_RequestCreatesPending ==
    [][LET a == last'.cur
           b == last'.uid
       IN  (/\ last'.op = "add"
            /\ a \in Users
            /\ b \in Users
            /\ a # b
            /\ St(friends, a, b) = "neutral") =>
              /\ friends \subseteq friends'
              /\ \E r \in friends' \ friends :
                   /\ friends' \ friends = {r}
                   /\ r.user1 = a
                   /\ r.user2 = b
                   /\ r.status = PENDING
                   /\ get_friend_status(friends', a, b) = <<"pending-sent-request", r>>
                   /\ get_friend_status(friends', b, a) = <<"pending-to-approve", r>>]_vars

\* A request has just been sent and its row is in the table.
C2_Witness ==
    /\ last.op = "add"
    /\ last.status = "neutral"
    /\ last.flash = "sent"
    /\ \E r \in friends : /\ r.user1 = last.cur
                          /\ r.user2 = last.uid
                          /\ r.status = PENDING
                          /\ r.id = nextId - 1

\* C3: in every step in which a row goes from PENDING to FRIEND, the acting
\* user is the row's recipient issuing add-friend toward the row's
\* requester; neither the requester nor a third user approves.
C3_OnlyRecipientApproves ==
    [][\A r \in friends :
         (r.status = PENDING /\ \E r2 \in friends' : r2.id = r.id /\ r2.status = FRIEND)
            => Served("add", r.user2, r.user1)]_vars

\* The recipient has just approved a request.
C3_Witness ==
    /\ last.op = "add"
    /\ last.status = "pending-to-approve"
    /\ \E r \in friends : /\ r.status = FRIEND
                          /\ r.user2 = last.cur
                          /\ r.user1 = last.uid

\* C4: when the requester of a PENDING row issues add-friend toward the
\* recipient again, the table is unchanged: the row stays PENDING with the
\* same requester and no second row is created.
C4_RequesterReAddIsNoOp ==
    [][\A r \in friends :
         (r.status = PENDING /\ Served("add", r.user1, r.user2))
            => (friends' = friends /\ nextId' = nextId)]_vars

\* The requester has just repeated a request that is still pending.
C4_Witness ==
    /\ last.op = "add"
    /\ last.status = "pending-sent-request"
    /\ last.flash = "already-sent"
    /\ \E r \in friends : /\ r.status = PENDING
                          /\ r.user1 = last.cur
                          /\ r.user2 = last.uid

\* C5: for a pair a # b with a row in status PENDING or FRIEND, a
\* remove-friend request by either of the two deletes the row, after which
\* the status is (neutral, None) in both directions.
C5_RemoveDeletes ==
    [][\A r \in friends : \A a \in {r.user1, r.user2} : \A b \in {r.user1, r.user2} :
         (a # b /\ r.status \in {PENDING, FRIEND} /\ Served("remove", a, b)) =>
            /\ r \notin friends'
            /\ get_friend_status(friends', a, b) = <<"neutral", NoRecord>>
            /\ get_friend_status(friends', b, a) = <<"neutral", NoRecord>>]_vars

\* A friendship has just been removed while another pair keeps its row.
C5_Witness ==
    /\ last.op = "remove"
    /\ last.status = "friend"
    /\ last.flash = "removed"
    /\ pair_records(friends, last.cur, last.uid) = {}
    /\ friends # {}

\* C6: a remove-friend request by a toward b (a # b) when the pair has no
\* row completes normally and leaves the table unchanged; hence a second
\* remove-friend right after a first one changes nothing and is no error.
C6_RemoveAbsentIsNoOp ==
    [][LET a == last'.cur
           b == last'.uid
       IN  /\ (/\ last'.op = "remove"
               /\ a \in Users
               /\ b \in Users
               /\ a # b
               /\ pair_records(friends, a, b) = {}) =>
                  /\ last'.outcome = "redirect"
                  /\ friends' = friends
                  /\ nextId' = nextId
           /\ (/\ last.op = "remove"
               /\ last.outcome = "redirect"
               /\ Served("remove", last.cur, last.uid)) =>
                  /\ last'.outcome = "redirect"
                  /\ friends' = friends]_vars

\* A remove-friend request has just found no row, after rows were created.
C6_Witness ==
    /\ last.op = "remove"
    /\ last.cur # last.uid
    /\ last.status = "neutral"
    /\ last.outcome = "redirect"
    /\ nextId > 1

\* The lifecycle state of a pair, derived from the status lookup.
Lifecycle(F, a, b) ==
    LET s == St(F, a, b)
    IN  CASE s = "neutral" -> "NEUTRAL"
          [] s \in {"pending-sent-request", "pending-to-approve"} -> "PENDING"
          [] s = "friend" -> "FRIEND"
          [] OTHER -> "UNKNOWN"

\* The edges of the request lifecycle.
LifecycleEdges ==
    {<<"NEUTRAL", "PENDING">>, <<"PENDING", "FRIEND">>,
     <<"PENDING", "NEUTRAL">>, <<"FRIEND", "NEUTRAL">>}

\* C7: across any add-friend or remove-friend step the lifecycle state of
\* a pair stays the same or moves along NEUTRAL->PENDING, PENDING->FRIEND,
\* PENDING->NEUTRAL or FRIEND->NEUTRAL; never NEUTRAL->FRIEND directly and
\* never FRIEND->PENDING.  (The lifecycle state is the same from both sides
\* of a pair, so each unordered pair is looked at once.)
C7_LifecycleEdgesOnly ==
    [][\/ friends' = friends
       \/ \A a \in Users, b \in Users :
            a < b =>
               LET before == Lifecycle(friends, a, b)
                   after == Lifecycle(friends', a, b)
               IN  \/ after = before
                   \/ <<before, after>> \in LifecycleEdges]_vars

\* A pair is back at NEUTRAL from FRIEND while another pair is PENDING.
C7_Witness ==
    /\ last.op = "remove"
    /\ last.status = "friend"
    /\ Lifecycle(friends, last.cur, last.uid) = "NEUTRAL"
    /\ \E a \in Users, b \in Users : a # b /\ Lifecycle(friends, a, b) = "PENDING"

\* C8: approval keeps the row the request created: same identity, same
\* requester and recipient, only the status becomes FRIEND, and that row is
\* what the requester's lookup returns; approval creates no row.  A remove
\* by the requester of a FRIEND row then gives (neutral, None).
C8_ApprovalKeepsRecord ==
    [][/\ LET b == last'.cur
              a == last'.uid
          IN  (/\ last'.op = "add"
               /\ a \in Users
               /\ b \in Users
               /\ a # b
               /\ St(friends, b, a) = "pending-to-approve") =>
                  LET r == Rec(friends, b, a)
                      approved == [id |-> r.id, user1 |-> a, user2 |-> b,
                                   status |-> FRIEND]
                  IN  /\ r.user1 = a
                      /\ r.user2 = b
                      /\ friends' = (friends \ {r}) \cup {approved}
                      /\ get_friend_status(friends', a, b) = <<"friend", approved>>
       /\ \A r \in friends :
            (r.status = FRIEND /\ Served("remove", r.user1, r.user2)) =>
               get_friend_status(friends', r.user1, r.user2) = <<"neutral", NoRecord>>]_vars

\* User 2 has approved the request of user 1, the first row of the table.
C8_Witness ==
    /\ last.op = "add"
    /\ last.cur = 2
    /\ last.uid = 1
    /\ last.flash = "approved"
    /\ get_friend_status(friends, 1, 2) =
          <<"friend", [id |-> 1, user1 |-> 1, user2 |-> 2, status |-> FRIEND]>>

\* The status the other user of the pair sees.
Mirror(status) ==
    CASE status = "pending-sent-request" -> "pending-to-approve"
      [] status = "pending-to-approve" -> "pending-sent-request"
      [] OTHER -> status

\* C9: for every two distinct users the status is one of friend,
\* pending-sent-request, pending-to-approve and neutral (the four branches of
\* the search list of show_friends), and the other user sees its mirror.
C9_FourWayMirror ==
    \A a \in Users, b \in Users :
        a # b =>
            /\ St(friends, a, b) \in Statuses
            /\ search_buttons(St(friends, a, b)) # "abort"
            /\ St(friends, b, a) = Mirror(St(friends, a, b))
            /\ Rec(friends, b, a) = Rec(friends, a, b)

\* One pair is friends, one is pending and one is neutral.
C9_Witness ==
    \E a \in Users, b \in Users, c \in Users :
        /\ St(friends, a, b) = "friend"
        /\ St(friends, a, c) = "pending-sent-request"
        /\ St(friends, c, a) = "pending-to-approve"
        /\ St(friends, b, c) = "neutral"

\* Every pair of distinct users is (neutral, None) in both directions.
AllNeutral ==
    \A a \in Users, b \in Users :
        a # b => get_friend_status(friends, a, b) = <<"neutral", NoRecord>>

\* C10: distinct users between whom no row exists are (neutral, None) in
\* both directions: before any row was created, and for a pair whose row a
\* remove-friend request has just deleted.
C10_NoRecordIsNeutral ==
    /\ nextId = 1 => AllNeutral
    /\ (last.op = "remove" /\ last.outcome = "redirect") =>
          /\ get_friend_status(friends, last.cur, last.uid) = <<"neutral", NoRecord>>
          /\ get_friend_status(friends, last.uid, last.cur) = <<"neutral", NoRecord>>
    /\ \A a \in Users, b \in Users :
          (a # b /\ \A r \in friends : {r.user1, r.user2} # {a, b}) =>
             /\ get_friend_status(friends, a, b) = <<"neutral", NoRecord>>
             /\ get_friend_status(friends, b, a) = <<"neutral", NoRecord>>

\* A pending request has just been rejected; its pair has no row again.
C10_Witness ==
    /\ last.op = "remove"
    /\ last.flash = "rejected"
    /\ nextId > 1
    /\ \A r \in friends : {r.user1, r.user2} # {last.cur, last.uid}

\* C11: an add-friend or remove-friend request whose target is the acting
\* user itself is answered with an error before the status is looked up and
\* leaves the table unchanged; no row ever has its requester as recipient.
C11_SelfTargetRejected ==
    [][/\ (last'.op \in {"add", "remove"} /\ last'.cur = last'.uid) =>
             /\ last'.outcome = "abort404"
             /\ last'.status = "none"
             /\ friends' = friends
             /\ nextId' = nextId
       /\ \A r \in friends' : r.user1 # r.user2]_vars

\* A user has just tried to add itself while it has a pending request.
C11_Witness ==
    /\ last.op = "add"
    /\ last.cur = last.uid
    /\ last.outcome = "abort404"
    /\ \E r \in friends : r.user1 = last.cur /\ r.status = PENDING

\* Outcomes that tell the caller that something was not found: abort(404),
\* and the NoResultFound that escapes from User.query...one().
NotFoundOutcomes == {"abort404", "exception"}

\* C12: an add-friend or remove-friend request whose target id belongs to
\* no user is reported to the caller as not found, and no row naming that
\* id is created.
C12_MissingUserNotFound ==
    /\ (last.op \in {"add", "remove"} /\ last.uid \notin Users) =>
          last.outcome \in NotFoundOutcomes
    /\ \A r \in friends : r.user1 \in Users /\ r.user2 \in Users

\* C13: when the status lookup returns a value outside the four known
\* statuses, add-friend, remove-friend and the friends listing each end in
\* abort(404) and change nothing in the store (remove-friend does not
\* delete the row); the value is not handled as a known status.
C13_UnknownStatusAborts ==
    [][/\ (/\ last'.op \in {"add", "remove"}
           /\ last'.cur # last'.uid
           /\ St(friends, last'.cur, last'.uid) \notin Statuses) =>
              /\ last'.outcome = "abort404"
              /\ last'.flash = "none"
              /\ friends' = friends
              /\ nextId' = nextId
       /\ (/\ last'.op = "show"
           /\ \E e \in get_all_friends(friends, last'.cur) : e[1] \notin Statuses) =>
              /\ last'.outcome = "abort404"
              /\ friends' = friends
              /\ nextId' = nextId]_vars

\* A remove-friend request has met the unknown status; the row is still
\* there.
C13_Witness ==
    /\ last.op = "remove"
    /\ last.status = "unknown"
    /\ last.outcome = "abort404"
    /\ \E r \in pair_records(friends, last.cur, last.uid) : r.status = ExtendedStatus

\* C14: the lifecycle has no absorbing state.  In every reachable state and
\* for every pair of distinct users, a remove-friend request of one of the
\* two is enabled that leaves the pair NEUTRAL; from NEUTRAL an add-friend
\* request is enabled that makes the pair PENDING (while the table still
\* hands out row ids, nextId <= MaxId), and from PENDING one that makes
\* it FRIEND, so both are reachable again.  (Each unordered pair is looked
\* at once.)
C14_NoAbsorbingState ==
    [](\A a \in Users, b \in Users :
        a < b =>
            LET now == Lifecycle(friends, a, b)
            IN  /\ \/ ENABLED (/\ remove_friend_userid_provided(a, b)
                               /\ Lifecycle(friends', a, b) = "NEUTRAL")
                   \/ ENABLED (/\ remove_friend_userid_provided(b, a)
                               /\ Lifecycle(friends', a, b) = "NEUTRAL")
                /\ (now = "NEUTRAL" /\ nextId <= MaxId) =>
                     ENABLED (/\ add_friend_userid_provided(a, b)
                              /\ Lifecycle(friends', a, b) = "PENDING")
                /\ now = "PENDING" =>
                     \/ ENABLED (/\ add_friend_userid_provided(a, b)
                                 /\ Lifecycle(friends', a, b) = "FRIEND")
                     \/ ENABLED (/\ add_friend_userid_provided(b, a)
                                 /\ Lifecycle(friends', a, b) = "FRIEND"))

\* A pair that was FRIEND is NEUTRAL again and can still be requested anew.
C14_Witness ==
    /\ last.op = "remove"
    /\ last.status = "friend"
    /\ Lifecycle(friends, last.cur, last.uid) = "NEUTRAL"
    /\ nextId <= MaxId

\* Rows of the table the user takes part in.
rows_of(F, u) == {r \in F : r.user1 = u \/ r.user2 = u}

\* C15: for every user u, get_all_friends(u) has exactly one (status, other)
\* entry per row in which u is requester or recipient; other is the
\* counterpart of u in that row and status is what the lookup gives for
\* (u, other); no entry is neutral or names u itself, so the friends listing
\* never reaches its abort for an unknown status.
C15_ListMatchesRows ==
    \A u \in Users :
        LET listed == get_all_friends(friends, u)
            rows == rows_of(friends, u)
        IN  /\ Cardinality(listed) = Cardinality(rows)
            /\ \A r \in rows :
                 \E e \in listed :
                    /\ e[2] \in {r.user1, r.user2} \ {u}
                    /\ e[1] = (IF r.status = FRIEND THEN "friend"
                               ELSE IF r.user1 = u THEN "pending-sent-request"
                               ELSE "pending-to-approve")
            /\ \A e \in listed :
                 /\ e[2] \in Users \ {u}
                 /\ e[1] \in Statuses \ {"neutral"}
                 /\ e[1] = St(friends, u, e[2])
                 /\ friend_buttons(e[1]) # "abort"

\* A user is in two rows, one approved and one a request it has received.
C15_Witness ==
    \E u \in Users :
        /\ Cardinality(rows_of(friends, u)) = 2
        /\ {e[1] : e \in get_all_friends(friends, u)} = {"friend", "pending-to-approve"}

\* C16: when a has a pending request toward b and b issues add-friend
\* toward a (a mutual request), the request of b is handled as an approval:
\* the pair ends with the single row of a's request, now FRIEND and still
\* with requester a; never with two rows (a,b) and (b,a).
C16_MutualRequestApproves ==
    [][\A r \in friends :
         (r.status = PENDING /\ Served("add", r.user2, r.user1)) =>
            /\ pair_records(friends', r.user1, r.user2) =
                  {[id |-> r.id, user1 |-> r.user1, user2 |-> r.user2,
                    status |-> FRIEND]}
            /\ nextId' = nextId
            /\ last'.flash = "approved"]_vars

\* User 1 has answered the request of user 2 with a request of its own;
\* the pair has the one row of user 2, approved.
C16_Witness ==
    /\ last = Request("add", 1, 2, "pending-to-approve", "redirect", "approved")
    /\ pair_records(friends, 1, 2) =
          {[id |-> nextId - 1, user1 |-> 2, user2 |-> 1, status |-> FRIEND]}

\* C17: an add-friend or remove-friend request by a toward b creates,
\* changes or deletes at most the row of the pair {a, b}: the rows of all
\* other pairs are the same before and after; an add-friend request for a
\* pair that is already FRIEND leaves the whole table unchanged.
C17_OnlyThePairIsTouched ==
    [][last'.op \in {"add", "remove"} =>
         LET a == last'.cur
             b == last'.uid
         IN  /\ friends' \ pair_records(friends', a, b) =
                   friends \ pair_records(friends, a, b)
             /\ Cardinality(pair_records(friends', a, b)) <= 1
             /\ (last'.op = "add" /\ a # b /\ St(friends, a, b) = "friend") =>
                   (friends' = friends /\ nextId' = nextId)]_vars

\* A request has just been unsent while the requester keeps its friendship
\* with a third user.
C17_Witness ==
    /\ last.op = "remove"
    /\ last.flash = "unsent"
    /\ pair_records(friends, last.cur, last.uid) = {}
    /\ \E r \in friends : /\ last.cur \in {r.user1, r.user2}
                          /\ r.status = FRIEND

\* C18: when add-friend handlers for the same neutral pair overlap, each
\* looking the status up before the other has committed its insert, the
\* table still ends with at most one row for the pair.
C18_OverlappingAddsOneRecord ==
    inflight = {} =>
        \A a \in Users, b \in Users :
            a # b => Cardinality(pair_records(friends, a, b)) <= 1
====
